---- MODULE Spec2Model ----
(***************************************************************************)
(* The color-scheme preference widget (src/src/components/                 *)
(* DarkModeSwitch.tsx) as a state machine: the browser's storage key        *)
(* "color_scheme", the operating system's light/dark signal, the page's     *)
(* two host functions (window.updateDarkMode, window.isDarkMode) and the    *)
(* Preact component with its deferred renders and its mount effect.         *)
(* Further: the index page and the RSS feed built from the blog collection  *)
(* (src/src/pages/rss.xml.js) and the terminal-styling script (src/site.js).*)
(***************************************************************************)
EXTENDS Integers, Sequences, FiniteSets, TLC

\* Longest run of user selections followed within one page view.
MaxSelections == 3

\* Longest run of OS preference flips followed within one page view.
MaxOsChanges == 2

\* localStorage.getItem returns null when the key is absent.
Absent == "<null>"

\* type Preference = "system" | "light" | "dark"
Preference == {"system", "light", "dark"}

\* The selector offering the options' labels as values ("Auto" for System).
Options_labels == {"auto", "light", "dark"}

\* The <option value=...> elements of the selector.
Options == {"system", "light", "dark"}

\* Strings the key can hold when the page is opened: the three literals and
\* a string that is none of them (written by an older page, or by hand).
StoredStrings == Preference \cup {"bogus"}

\* How the browser's storage behaves during a page view: working, readable
\* but refusing writes (quota exceeded), or refusing every access (disabled).
StorageModes == {"ok", "readonly", "disabled"}

\* The operating system's preferred color scheme.
Scheme == {"light", "dark"}

\* Value of a component field before the component exists.
None == "none"

\* Most posts in the blog collection.
MaxPosts == 3

\* Publication dates are the days 1..MaxDate.
MaxDate == 2

\* Most elements of a page the terminal script looks at.
MaxElements == 2

\* Most children of such an element.
MaxChildren == 2

\* Slugs of the posts (the collection's ids, unique within it).
Slugs == {"a", "b", "c", "d"}

\* Titles of the posts.
Titles == {"T1", "T2"}

\* Classes of the page's elements: the styled class and any other.
Classes == {"terminal", "other"}

\* Children of an element: a <pre>, a <div> that wraps a <pre>, a <p>.
Kinds == {"pre", "wrap", "p"}

VARIABLES
    storage,        \* value under the key "color_scheme", or Absent
    storageMode,    \* behaviour of the storage during this page view
    osSignal,       \* matchMedia("(prefers-color-scheme: dark)"): "dark" iff it matches
    applied,        \* preference the page's restyle routine last applied to the document
    pc,             \* "unmounted", "rendered" (first render done, effect pending),
                    \* "mounted" (effect has run) or "crashed" (the render threw)
    preference,     \* the component's useState value
    selectValue,    \* value shown by the <select> element
    icon,           \* icon of the last render: "sun" or "moon"
    renderPending,  \* a re-render of the component is scheduled
    listeners,      \* "change" listeners the component registered on the media query
    selections,     \* change events of the <select> in this page view
    writes,         \* completed localStorage.setItem calls in this page view
    restyleCalls,   \* invocations of window.updateDarkMode by the component
    uncaught,       \* an exception left the component uncaught in this page view
    renders,        \* renders of the component in this page view
    osChanges,      \* flips of the OS preference in this page view
    posts,          \* the entries getCollection("blog") returns
    listed,         \* the <li> entries of the built index page
    items,          \* the items handed to rss() by GET
    dom,            \* the elements the terminal script's page holds
    built,          \* what has run: "index", "rss", "site"
    siteError       \* the terminal script ended by an exception

siteVars == <<posts, listed, items, dom, built, siteError>>

vars == <<storage, storageMode, osSignal, applied, pc, preference, selectValue,
          icon, renderPending, listeners, selections, writes, restyleCalls,
          uncaught, renders, osChanges, posts, listed, items, dom, built,
          siteError>>

-----------------------------------------------------------------------------
(* The host page: Preference Store and the two window functions.           *)

\* get(): the stored preference, System when missing, invalid or unreadable.
get(st, mode) ==
    IF mode = "disabled" THEN "system"
    ELSE IF st \in Preference THEN st ELSE "system"

\* resolveEffective(p, osSignal)
resolveEffective(p, os) == IF p # "system" THEN p ELSE os

\* window.isDarkMode(): is the document currently rendered in dark mode.
isDarkMode(ap, os) == resolveEffective(ap, os) = "dark"

\* window.updateDarkMode(): re-applies the stored preference to the document;
\* the result is the preference the document is styled by afterwards.
updateDarkMode(st, mode) == get(st, mode)

-----------------------------------------------------------------------------
(* The component.                                                          *)

\* An initializer whose default is Light instead of System.
initialPreference_light(st) == IF st = Absent THEN "light" ELSE st

\* useState(() => localStorage.getItem("color_scheme") ?? "system")
initialPreference(st) == IF st = Absent THEN "system" ELSE st

\* A handler that never writes the selected value.
setItem_dropped(st, v) == st

\* localStorage.setItem("color_scheme", v): the stored value afterwards.
setItem(st, v) == v

\* A setter that keeps the state it had.
setPreference_stale(cur, s) == cur

\* setPreference(s): the state after the call.
setPreference(cur, s) == s

\* <select value={p}> over the three options: the option shown; a value that
\* is no option selects nothing and the element's value is the empty string.
selectDom(p) == IF p \in Options THEN p ELSE ""

\* A rerender that stores an unchanged state, scheduling nothing.
rerender_noop(pending) == pending

\* rerender(): setDate(new Date()) stores a fresh object, which always
\* schedules a re-render, whether or not one is already scheduled.
rerender(pending) == TRUE

\* The two branches of the icon exchanged.
Icon_swapped(dark) == IF dark THEN "sun" ELSE "moon"

\* An icon that ignores the dark-mode query.
Icon_sun(dark) == "sun"

\* {window.isDarkMode() ? <Moon /> : <Sun />}
Icon(dark) == IF dark THEN "moon" ELSE "sun"

TypeOK ==
    /\ storage \in StoredStrings \cup {Absent}
    /\ storageMode \in StorageModes
    /\ osSignal \in Scheme
    /\ applied \in Preference
    /\ pc \in {"unmounted", "rendered", "mounted", "crashed"}
    /\ preference \in StoredStrings \cup {None}
    /\ selectValue \in Options \cup {"", None}
    /\ icon \in {"sun", "moon", None}
    /\ renderPending \in BOOLEAN
    /\ listeners \in 0..1
    /\ selections \in 0..MaxSelections
    /\ writes \in 0..MaxSelections
    /\ restyleCalls \in 0..MaxSelections
    /\ uncaught \in BOOLEAN
    /\ renders \in 0..(1 + MaxSelections + MaxOsChanges)
    /\ osChanges \in 0..MaxOsChanges

\* Nothing of the site's pages has been built or run.
siteIdle ==
    /\ listed = <<>>
    /\ items = <<>>
    /\ built = {}
    /\ siteError = FALSE

Init ==
    /\ posts = <<>>
    /\ dom = <<>>
    /\ siteIdle
    /\ storage \in StoredStrings \cup {Absent}
    /\ storageMode \in StorageModes
    /\ osSignal \in Scheme
    /\ applied = get(storage, storageMode)
    /\ pc = "unmounted"
    /\ preference = None
    /\ selectValue = None
    /\ icon = None
    /\ renderPending = FALSE
    /\ listeners = 0
    /\ selections = 0
    /\ writes = 0
    /\ restyleCalls = 0
    /\ uncaught = FALSE
    /\ renders = 0
    /\ osChanges = 0

\* A new page view: the previous document and its component are discarded,
\* the storage and the OS signal persist, the page applies the stored scheme.
Load ==
    /\ UNCHANGED siteVars
    /\ pc # "unmounted"
    /\ ~renderPending
    /\ storageMode' \in StorageModes
    /\ applied' = get(storage, storageMode')
    /\ pc' = "unmounted"
    /\ preference' = None
    /\ selectValue' = None
    /\ icon' = None
    /\ renderPending' = FALSE
    /\ listeners' = 0
    /\ selections' = 0
    /\ writes' = 0
    /\ restyleCalls' = 0
    /\ uncaught' = FALSE
    /\ renders' = 0
    /\ osChanges' = 0
    /\ UNCHANGED <<storage, osSignal>>

\* First render of DarkModeSwitch: the useState initializer reads the
\* storage (an exception there aborts the render), then the markup is built.
DarkModeSwitch ==
    /\ UNCHANGED siteVars
    /\ pc = "unmounted"
    /\ IF storageMode = "disabled"
       THEN /\ pc' = "crashed"
            /\ uncaught' = TRUE
            /\ UNCHANGED <<preference, selectValue, icon, renders>>
       ELSE /\ pc' = "rendered"
            /\ renders' = renders + 1
            /\ preference' = initialPreference(storage)
            /\ selectValue' = selectDom(preference')
            /\ icon' = Icon(isDarkMode(applied, osSignal))
            /\ UNCHANGED uncaught
    /\ UNCHANGED <<storage, storageMode, osSignal, applied, renderPending,
                   listeners, selections, writes, restyleCalls, osChanges>>

\* An effect without its empty dependency list: it runs after every render
\* and registers one more listener each time.
useEffect_everyRender ==
    /\ UNCHANGED siteVars
    /\ pc \in {"rendered", "mounted"}
    /\ ~renderPending
    /\ listeners < renders
    /\ pc' = "mounted"
    /\ listeners' = listeners + 1
    /\ UNCHANGED <<storage, storageMode, osSignal, applied, preference,
                   selectValue, icon, renderPending, selections, writes,
                   restyleCalls, uncaught, renders, osChanges>>

\* useEffect(() => { systemDarkMode.addEventListener("change", ...) }, [])
\* runs once, after the first render.
useEffect ==
    /\ UNCHANGED siteVars
    /\ pc = "rendered"
    /\ ~renderPending
    /\ pc' = "mounted"
    /\ listeners' = listeners + 1
    /\ UNCHANGED <<storage, storageMode, osSignal, applied, preference,
                   selectValue, icon, renderPending, selections, writes,
                   restyleCalls, uncaught, renders, osChanges>>

\* A render that runs the storage read again instead of keeping the state.
render_rereads ==
    /\ UNCHANGED siteVars
    /\ pc \in {"rendered", "mounted"}
    /\ renderPending
    /\ renderPending' = FALSE
    /\ preference' = initialPreference(storage)
    /\ selectValue' = selectDom(preference')
    /\ icon' = Icon(isDarkMode(applied, osSignal))
    /\ renders' = renders + 1
    /\ UNCHANGED <<storage, storageMode, osSignal, applied, pc,
                   listeners, selections, writes, restyleCalls, uncaught,
                   osChanges>>

\* A scheduled re-render of the component. Preact flushes its render queue in
\* a microtask, that is when the handler that scheduled the render returns
\* and before the browser runs another task: no other step is enabled while
\* a render is scheduled.
render ==
    /\ UNCHANGED siteVars
    /\ pc \in {"rendered", "mounted"}
    /\ renderPending
    /\ renderPending' = FALSE
    /\ selectValue' = selectDom(preference)
    /\ icon' = Icon(isDarkMode(applied, osSignal))
    /\ renders' = renders + 1
    /\ UNCHANGED <<storage, storageMode, osSignal, applied, pc, preference,
                   listeners, selections, writes, restyleCalls, uncaught,
                   osChanges>>

\* A handler that calls window.updateDarkMode() before localStorage.setItem.
updatePreference_restyleFirst(s) ==
    /\ UNCHANGED siteVars
    /\ pc \in {"rendered", "mounted"}
    /\ ~renderPending
    /\ selections < MaxSelections
    /\ s # selectValue
    /\ selections' = selections + 1
    /\ selectValue' = s
    /\ preference' = setPreference(preference, s)
    /\ renderPending' = (renderPending \/ preference' # preference)
    /\ applied' = updateDarkMode(storage, storageMode)
    /\ restyleCalls' = restyleCalls + 1
    /\ IF storageMode = "ok"
       THEN /\ storage' = setItem(storage, s)
            /\ writes' = writes + 1
            /\ UNCHANGED uncaught
       ELSE /\ uncaught' = TRUE
            /\ UNCHANGED <<storage, writes>>
    /\ UNCHANGED <<storageMode, osSignal, pc, icon, listeners, renders,
                   osChanges>>

\* A handler whose state update renders at once, before the document is
\* restyled, and schedules no later render.
updatePreference_rendersFirst(s) ==
    /\ UNCHANGED siteVars
    /\ pc \in {"rendered", "mounted"}
    /\ ~renderPending
    /\ selections < MaxSelections
    /\ s # selectValue
    /\ selections' = selections + 1
    /\ selectValue' = s
    /\ preference' = setPreference(preference, s)
    /\ icon' = Icon(isDarkMode(applied, osSignal))
    /\ renders' = renders + 1
    /\ IF storageMode = "ok"
       THEN /\ storage' = setItem(storage, s)
            /\ writes' = writes + 1
            /\ applied' = updateDarkMode(storage', storageMode)
            /\ restyleCalls' = restyleCalls + 1
            /\ UNCHANGED uncaught
       ELSE /\ uncaught' = TRUE
            /\ UNCHANGED <<storage, writes, applied, restyleCalls>>
    /\ UNCHANGED <<storageMode, osSignal, pc, renderPending, listeners,
                   osChanges>>

\* The user picks option s: the element shows s and onChange calls
\* updatePreference(s): setPreference, then setItem (which throws when the
\* storage refuses the write, ending the handler), then updateDarkMode.
updatePreference(s) ==
    /\ UNCHANGED siteVars
    /\ pc \in {"rendered", "mounted"}
    /\ ~renderPending
    /\ selections < MaxSelections
    /\ s # selectValue
    /\ selections' = selections + 1
    /\ selectValue' = s
    /\ preference' = setPreference(preference, s)
    /\ renderPending' = (renderPending \/ preference' # preference)
    /\ IF storageMode = "ok"
       THEN /\ storage' = setItem(storage, s)
            /\ writes' = writes + 1
            /\ applied' = updateDarkMode(storage', storageMode)
            /\ restyleCalls' = restyleCalls + 1
            /\ UNCHANGED uncaught
       ELSE /\ uncaught' = TRUE
            /\ UNCHANGED <<storage, writes, applied, restyleCalls>>
    /\ UNCHANGED <<storageMode, osSignal, pc, icon, listeners, renders,
                   osChanges>>

\* A listener that also stores the scheme the OS switched to.
systemDarkModeChange_persists ==
    /\ UNCHANGED siteVars
    /\ ~renderPending
    /\ osChanges < MaxOsChanges
    /\ osChanges' = osChanges + 1
    /\ osSignal' = IF osSignal = "dark" THEN "light" ELSE "dark"
    /\ renderPending' = IF listeners > 0 THEN rerender(renderPending)
                                         ELSE renderPending
    /\ storage' = IF listeners > 0 /\ storageMode = "ok" THEN osSignal'
                                                          ELSE storage
    /\ UNCHANGED <<storageMode, applied, pc, preference, selectValue,
                   icon, listeners, selections, writes, restyleCalls, uncaught,
                   renders>>

\* The OS preference flips; every registered listener calls rerender().
systemDarkModeChange ==
    /\ UNCHANGED siteVars
    /\ ~renderPending
    /\ osChanges < MaxOsChanges
    /\ osChanges' = osChanges + 1
    /\ osSignal' = IF osSignal = "dark" THEN "light" ELSE "dark"
    /\ renderPending' = IF listeners > 0 THEN rerender(renderPending)
                                         ELSE renderPending
    /\ UNCHANGED <<storage, storageMode, applied, pc, preference, selectValue,
                   icon, listeners, selections, writes, restyleCalls, uncaught,
                   renders>>

Next ==
    \/ Load
    \/ DarkModeSwitch
    \/ useEffect
    \/ render
    \/ \E s \in Options : updatePreference(s)
    \/ systemDarkModeChange

Spec == Init /\ [][Next]_vars

\* Something other than this widget (another tab of the site, the developer
\* tools) stores v under the key.
otherWriter(v) ==
    /\ UNCHANGED siteVars
    /\ ~renderPending
    /\ v # storage
    /\ storage' = v
    /\ UNCHANGED <<storageMode, osSignal, applied, pc, preference, selectValue,
                   icon, renderPending, listeners, selections, writes,
                   restyleCalls, uncaught, renders, osChanges>>

NextExternal ==
    \/ Next
    \/ \E v \in StoredStrings : otherWriter(v)

\* The widget next to other writers of the storage key.
SpecExternal == Init /\ [][NextExternal]_vars

-----------------------------------------------------------------------------
(* The index page and the RSS feed (src/src/pages/rss.xml.js).             *)

\* The widget that has not been constructed, in a page with a working and
\* empty storage.
widgetIdle ==
    /\ storage = Absent
    /\ storageMode = "ok"
    /\ osSignal = "light"
    /\ applied = "system"
    /\ pc = "unmounted"
    /\ preference = None
    /\ selectValue = None
    /\ icon = None
    /\ renderPending = FALSE
    /\ listeners = 0
    /\ selections = 0
    /\ writes = 0
    /\ restyleCalls = 0
    /\ uncaught = FALSE
    /\ renders = 0
    /\ osChanges = 0

widgetVars == <<storage, storageMode, osSignal, applied, pc, preference,
                selectValue, icon, renderPending, listeners, selections,
                writes, restyleCalls, uncaught, renders, osChanges>>

\* An entry of the blog collection: its slug and its frontmatter data.
Post == [slug : Slugs, data : [title : Titles, pubDate : 1..MaxDate]]

\* The collections of at most MaxPosts entries, slugs unique.
Collections ==
    {c \in UNION {[1..n -> Post] : n \in 0..MaxPosts} :
        \A i, j \in DOMAIN c : i # j => c[i].slug # c[j].slug}

\* A comparator that orders the oldest post first.
compare_ascending(a, b) == a.data.pubDate - b.data.pubDate

\* (a, b) => b.data.pubDate.valueOf() - a.data.pubDate.valueOf()
compare(a, b) == b.data.pubDate - a.data.pubDate

\* Array.prototype.sort with that comparator: a stable sort, here by
\* insertion; x goes before the first element the comparator puts after it.
RECURSIVE insert(_, _)
insert(x, sorted) ==
    IF sorted = <<>> THEN <<x>>
    ELSE IF compare(Head(sorted), x) > 0 THEN <<x>> \o sorted
    ELSE <<Head(sorted)>> \o insert(x, Tail(sorted))

RECURSIVE sort(_)
sort(arr) ==
    IF arr = <<>> THEN <<>>
    ELSE insert(arr[Len(arr)], sort(SubSeq(arr, 1, Len(arr) - 1)))

\* href={`/${post.slug}/`}
href(slug) == <<"/", slug, "/">>

\* The <li> of a post: its date, its linked title.
li(post) ==
    [href |-> href(post.slug), title |-> post.data.title,
     date |-> post.data.pubDate]

\* The index page: the collection sorted, one <li> per post.
indexPage ==
    /\ "index" \notin built
    /\ built' = built \cup {"index"}
    /\ listed' = [i \in DOMAIN posts |-> li(sort(posts)[i])]
    /\ UNCHANGED <<posts, items, dom, siteError>>
    /\ UNCHANGED widgetVars

\* A link without its leading slash.
link_relative(slug) == <<slug, "/">>

\* link: `/${post.slug}/`
link(slug) == <<"/", slug, "/">>

\* ({ ...post.data, link: ... })
item(post) == ("link" :> link(post.slug)) @@ post.data

\* GET: one item per entry of the collection, in the collection's order.
GET ==
    /\ "rss" \notin built
    /\ built' = built \cup {"rss"}
    /\ items' = [i \in DOMAIN posts |-> item(posts[i])]
    /\ UNCHANGED <<posts, listed, dom, siteError>>
    /\ UNCHANGED widgetVars

InitPages ==
    /\ widgetIdle
    /\ posts \in Collections
    /\ dom = <<>>
    /\ siteIdle

NextPages ==
    \/ indexPage
    \/ GET

\* The build of the two pages over any collection.
SpecPages == InitPages /\ [][NextPages]_vars

-----------------------------------------------------------------------------
(* The terminal-styling script (src/site.js).                              *)

\* The sequences over S of at most n elements.
SeqUpTo(S, n) == UNION {[1..k -> S] : k \in 0..n}

\* An element the script can meet: its class and its children.
Element == [cls : Classes, children : SeqUpTo(Kinds, MaxChildren)]

\* The pages: at most MaxElements such elements.
Documents == SeqUpTo(Element, MaxElements)

\* terminal.querySelector('pre'): the first <pre> among the descendants in
\* document order: a child, a node below a child, or null.
querySelector(children) ==
    LET hits == {i \in DOMAIN children : children[i] \in {"pre", "wrap"}}
    IN  IF hits = {} THEN [node |-> "null", at |-> 0]
        ELSE LET i == CHOOSE k \in hits : \A h \in hits : k <= h
             IN  [node |-> IF children[i] = "pre" THEN "child" ELSE "descendant",
                  at |-> i]

\* terminal.insertBefore(top, pre): appends when pre is null, inserts before
\* pre when it is a child, throws NotFoundError when it is no child.
insertBefore(children, top, pre) ==
    IF pre.node = "null"
    THEN [threw |-> FALSE, children |-> Append(children, top)]
    ELSE IF pre.node = "child"
    THEN [threw |-> FALSE,
          children |-> SubSeq(children, 1, pre.at - 1) \o <<top>>
                        \o SubSeq(children, pre.at, Len(children))]
    ELSE [threw |-> TRUE, children |-> children]

\* terminals.forEach(...) from element i on; an exception ends the loop.
RECURSIVE forEach(_, _)
forEach(d, i) ==
    IF i > Len(d) THEN [dom |-> d, threw |-> FALSE]
    ELSE IF d[i].cls # "terminal" THEN forEach(d, i + 1)
    ELSE LET r == insertBefore(d[i].children, "top",
                               querySelector(d[i].children))
         IN  IF r.threw THEN [dom |-> d, threw |-> TRUE]
             ELSE forEach([d EXCEPT ![i].children = r.children], i + 1)

\* The script runs, once per page.
siteScript ==
    /\ "site" \notin built
    /\ built' = built \cup {"site"}
    /\ dom' = forEach(dom, 1).dom
    /\ siteError' = forEach(dom, 1).threw
    /\ UNCHANGED <<posts, listed, items>>
    /\ UNCHANGED widgetVars

InitSite ==
    /\ widgetIdle
    /\ posts = <<>>
    /\ dom \in Documents
    /\ siteIdle

NextSite == siteScript

\* The script over any page.
SpecSite == InitSite /\ [][NextSite]_vars

-----------------------------------------------------------------------------
(* Steps, recognised by what they change.                                  *)

\* The user selected an option (a change event of the selector).
IsSelection == selections' = selections + 1

\* The component was constructed (its first render ran, or threw).
IsMount == pc = "unmounted" /\ pc' # "unmounted"

\* The component's markup was rendered, first render included.
IsRender == renders' = renders + 1

\* The OS preference flipped.
IsOsChange == osChanges' = osChanges + 1

\* The preference the Preference Store holds, as the page resolves it.
storedPreference == get(storage, storageMode)

\* The Preference is p at this step: the Preference Store holds p, or the
\* widget holds p in memory during a page view whose storage works.
PreferenceIs(p) ==
    \/ storedPreference = p
    \/ (storageMode = "ok" /\ preference' = p)

-----------------------------------------------------------------------------
(* Properties.                                                             *)

\* C1 (as amended): when the storage accepts the write, a selection of s
\* leaves s under the key, overwriting the prior value; nothing but a
\* selection changes the stored value, so it stays the last one selected; and
\* a widget that mounts (its read succeeding) over a stored s in
\* {"system","light","dark"} takes s as its initial Preference.
C1_RoundTrip ==
    [][ /\ (IsSelection /\ storageMode = "ok")
            => (storage' = selectValue' /\ storage' \in Preference)
        /\ ~IsSelection => storage' = storage
        /\ (IsMount /\ pc' = "rendered" /\ storage \in Preference)
            => preference' = storage ]_vars

\* C1 (as stated): after every selection of s the key holds s, whatever the
\* storage did with the write; nothing else changes the stored value; and a
\* widget mounted over a stored s reads s as its initial Preference.
C1_Original ==
    [][ /\ IsSelection => (storage' = selectValue' /\ storage' \in Preference)
        /\ ~IsSelection => storage' = storage
        /\ (IsMount /\ pc' = "rendered" /\ storage \in Preference)
            => preference' = storage ]_vars

\* Two selections were written, the last one ("dark") is what the key holds.
C1_Witness ==
    /\ pc = "mounted" /\ storageMode = "ok"
    /\ selections = 2 /\ writes = 2
    /\ selectValue = "dark" /\ storage = "dark" /\ preference = "dark"

\* C2: a widget mounted over an absent key or over a stored string outside
\* {"system","light","dark"} loads the Preference System.
C2_InvalidLoadsSystem ==
    [][ (IsMount /\ pc' = "rendered" /\ storage \notin Preference)
            => preference' = "system" ]_vars

\* C3: when the storage read fails at mount, the widget still mounts, its
\* Preference is System and no error is raised.
C3_ReadNeverRaises ==
    [][ (IsMount /\ storageMode = "disabled")
            => (pc' = "rendered" /\ preference' = "system" /\ ~uncaught') ]_vars

\* C4: when the storage write fails during a selection of s, the in-memory
\* Preference still becomes s, window.updateDarkMode is still invoked, the
\* write is not retried and no error is raised.
C4_FailedWriteDoesNotBlock ==
    [][ (IsSelection /\ storageMode # "ok")
            => /\ preference' = selectValue'
               /\ restyleCalls' = restyleCalls + 1
               /\ writes' = writes
               /\ ~uncaught' ]_vars

\* C5: every selection invokes window.updateDarkMode exactly once; a mount
\* and an OS signal change invoke it zero times.
C5_RestyleOncePerSelection ==
    [][ /\ IsSelection => restyleCalls' = restyleCalls + 1
        /\ (IsMount \/ IsOsChange) => restyleCalls' = restyleCalls ]_vars

C9_EmptyStorageMount ==
    [][ (IsMount /\ pc' = "rendered" /\ storage = Absent)
            => /\ preference' = "system"
               /\ selectValue' = "system"
               /\ icon' = (IF osSignal' = "dark" THEN "moon" ELSE "sun")
               /\ storage' = Absent
               /\ writes' = writes ]_vars

\* A widget freshly mounted over an empty storage while the OS prefers dark.
C9_Witness ==
    /\ pc = "rendered" /\ renders = 1 /\ selections = 0 /\ osChanges = 0
    /\ storage = Absent /\ writes = 0
    /\ selectValue = "system" /\ osSignal = "dark" /\ icon = "moon"

\* C10: every value written under the key is one of "system", "light",
\* "dark"; hence a storage that is empty or valid stays empty or valid.
C10_WritesAreValid ==
    [][ /\ (storage' # storage \/ writes' = writes + 1) => storage' \in Preference
        /\ storage \in Preference \cup {Absent}
            => storage' \in Preference \cup {Absent} ]_vars

\* Three selections were written, the key holds the last one.
C10_Witness ==
    /\ writes = 3 /\ storage = "light" /\ preference = "light"

\* C11: the Preference is mutated by the selection handler only: a step that
\* is no selection (mount, re-render, OS-signal notification, effect) writes
\* nothing under the key and leaves the in-memory Preference of a mounted
\* widget as it is.
C11_OnlyHandlerMutates ==
    [][ ~IsSelection
            => /\ storage' = storage
               /\ (pc' # "unmounted" => writes' = writes)
               /\ (pc \in {"rendered", "mounted"} /\ pc' \in {"rendered", "mounted"})
                    => preference' = preference ]_vars

\* Two OS flips were notified and rendered at a widget holding Light: the
\* Preference is still Light and nothing was written.
C11_Witness ==
    /\ pc = "mounted" /\ ~renderPending
    /\ selections = 0 /\ osChanges = 2 /\ renders = 3
    /\ preference = "light" /\ storage = "light" /\ writes = 0

\* C12: whenever the handler invokes window.updateDarkMode, the selected value
\* has already been written: the key holds it and the restyle routine, which
\* reads the key, applies the selected value and not the previous one.
C12_WriteBeforeRestyle ==
    [][ (restyleCalls' # restyleCalls /\ pc' # "unmounted")
            => /\ IsSelection
               /\ restyleCalls' = restyleCalls + 1
               /\ writes' = writes + 1
               /\ storage' = selectValue'
               /\ applied' = selectValue' ]_vars

\* The widget mounted on an applied Light (sun although the OS prefers dark);
\* the user selected Dark and the restyle routine applied Dark.
C12_Witness ==
    /\ selections = 1 /\ restyleCalls = 1 /\ renderPending /\ osChanges = 0
    /\ osSignal = "dark" /\ icon = "sun"
    /\ storage = "dark" /\ applied = "dark"

C14_ReadOnceAtInit ==
    [][ /\ (IsMount /\ pc' = "rendered")
            => preference' = (IF storage = Absent THEN "system" ELSE storage)
        /\ (pc \in {"rendered", "mounted"} /\ pc' \in {"rendered", "mounted"}
                /\ ~IsSelection)
            => preference' = preference ]_vars

\* Another writer replaced the stored Dark by Light; the widget re-rendered
\* (an OS flip) and still holds Dark.
C14_Witness ==
    /\ pc = "mounted" /\ ~renderPending /\ storageMode = "ok"
    /\ selections = 0 /\ osChanges = 1 /\ renders = 2
    /\ preference = "dark" /\ selectValue = "dark" /\ storage = "light"

\* C15: an OS-signal change renders nothing itself and schedules a re-render
\* exactly when the listener is registered; a scheduled re-render is consumed
\* by exactly one render, which is the next step; the listener is registered
\* once, by the mount effect, and no other step of the page view changes the
\* number of listeners.
C15_OneRerenderPerNotification ==
    [][ /\ IsOsChange => (renders' = renders /\ renderPending' = (listeners = 1))
        /\ renderPending => (IsRender /\ ~renderPending')
        /\ (IsRender /\ pc # "unmounted") => renderPending
        /\ listeners' # listeners
            => \/ (pc = "rendered" /\ pc' = "mounted" /\ listeners' = 1)
               \/ pc' = "unmounted"
        /\ listeners' = (IF pc' = "mounted" THEN 1 ELSE 0) ]_vars

\* Two OS flips were notified at a mounted widget: two re-renders followed
\* the first render, and one listener is registered.
C15_Witness ==
    /\ pc = "mounted" /\ ~renderPending /\ listeners = 1
    /\ selections = 0 /\ osChanges = 2 /\ renders = 3

\* C16: in every state of a mounted widget whose page view has a working
\* storage, the in-memory Preference equals the stored value ("system" when
\* the key is absent), and the selector shows it whenever it is an option.
C16_MemoryEqualsStorage ==
    (pc \in {"rendered", "mounted"} /\ storageMode = "ok")
        => /\ preference = (IF storage = Absent THEN "system" ELSE storage)
           /\ preference \in Options => selectValue = preference

\* Selections and an OS flip interleaved; memory and storage agree on Light.
C16_Witness ==
    /\ pc = "mounted" /\ storageMode = "ok" /\ ~renderPending
    /\ selections = 2 /\ osChanges = 1 /\ renders = 4
    /\ preference = "light" /\ storage = "light" /\ selectValue = "light"

\* C17: the built index page lists every post of the collection exactly
\* once, and of two adjacent entries the first is not older than the second.
C17_IndexNewestFirst ==
    "index" \in built
        => /\ Len(listed) = Len(posts)
           /\ \A i \in DOMAIN posts :
                Cardinality({k \in DOMAIN listed :
                    listed[k] = [href |-> <<"/", posts[i].slug, "/">>,
                                 title |-> posts[i].data.title,
                                 date |-> posts[i].data.pubDate]}) = 1
           /\ \A k \in 1..(Len(listed) - 1) : listed[k].date >= listed[k + 1].date

\* Three posts, the oldest first in the collection, listed newest first.
C17_Witness ==
    /\ "index" \in built /\ Len(posts) = 3
    /\ posts[1].data.pubDate = 1 /\ posts[2].data.pubDate = 2
    /\ posts[3].data.pubDate = 1
    /\ listed[1].date = 2 /\ listed[1].href = <<"/", posts[2].slug, "/">>

\* C18: the items GET hands to rss() are one per post, in the collection's
\* order, each with the post's data fields and the link "/<slug>/".
C18_FeedItems ==
    "rss" \in built
        => /\ Len(items) = Len(posts)
           /\ \A i \in DOMAIN posts :
                /\ items[i].title = posts[i].data.title
                /\ items[i].pubDate = posts[i].data.pubDate
                /\ items[i].link = <<"/", posts[i].slug, "/">>
                /\ DOMAIN items[i] = DOMAIN posts[i].data \cup {"link"}

\* A feed of three items over a collection that is not in date order.
C18_Witness ==
    /\ "rss" \in built /\ Len(items) = 3
    /\ posts[1].data.pubDate = 1 /\ posts[2].data.pubDate = 2
    /\ items[1].link = <<"/", "b", "/">> /\ items[2].pubDate = 2

\* The terminal script ran in this step.
IsScriptRun == "site" \notin built /\ "site" \in built'

\* C19: after the script ran, every element of class "terminal" has gained
\* exactly one "top" div, immediately before its first <pre> child, or as
\* its last child when it has no <pre> child; no other element changed.
C19_EveryTerminalGetsTop ==
    [][ IsScriptRun
            => /\ Len(dom') = Len(dom)
               /\ \A i \in DOMAIN dom :
                    LET ch == dom[i].children
                        pres == {k \in DOMAIN ch : ch[k] = "pre"}
                        at == IF pres = {} THEN Len(ch) + 1
                              ELSE CHOOSE k \in pres : \A h \in pres : k <= h
                    IN  /\ dom'[i].cls = dom[i].cls
                        /\ dom'[i].children =
                             IF dom[i].cls = "terminal"
                             THEN SubSeq(ch, 1, at - 1) \o <<"top">>
                                    \o SubSeq(ch, at, Len(ch))
                             ELSE ch ]_vars

====
